---- MODULE Spec2Model ----
(***************************************************************************)
(* A model of the pyradiotracer ray-tracing engine (package ratracer):     *)
(* shapes with identity, the enumeration of reflector sequences, the       *)
(* backward image pass, the forward intersection and shadow walk and the   *)
(* trace result accumulator.                                               *)
(*                                                                         *)
(* Numbers.  numpy floats are modelled by exact real numbers of the form   *)
(* (n/d)*sqrt(m): a triple <<n, d, m>> with d > 0, gcd(|n|, d) = 1 and m a *)
(* squarefree positive integer (m = 1 for a rational).  Every value the    *)
(* engine computes from rational inputs has this form: a norm is a square  *)
(* root of a rational, a unit direction is a rational vector divided by    *)
(* it.  NaN is <<0, 0, 0>> and +inf / -inf are <<1, 0, 1>> / <<-1, 0, 1>>. *)
(* Rounding is not modelled.                                               *)
(***************************************************************************)
EXTENDS Integers, Sequences, FiniteSets, TLC

\* ------------------------------------------------------------------------
\* Exact arithmetic on numbers (n/d)*sqrt(m)
\* ------------------------------------------------------------------------

Abs(i) == IF i < 0 THEN -i ELSE i

Min(a, b) == IF a < b THEN a ELSE b

RECURSIVE GCD(_, _)
GCD(a, b) == IF b = 0 THEN a ELSE GCD(b, a % b)

\* <<s, r>> with k = s*s*r and r squarefree, trying the factors from f up.
RECURSIVE SquareOut(_, _, _)
SquareOut(k, f, s) ==
  IF f * f > k THEN <<s, k>>
  ELSE IF k % (f * f) = 0 THEN SquareOut(k \div (f * f), f, s * f)
  ELSE SquareOut(k, f + 1, s)

NaN == <<0, 0, 0>>
PInf == <<1, 0, 1>>
NInf == <<-1, 0, 1>>
Zero == <<0, 1, 1>>
One == <<1, 1, 1>>

IsNaN(x) == x[2] = 0 /\ x[1] = 0
IsInf(x) == x[2] = 0 /\ x[1] # 0
IsFinite(x) == x[2] # 0

\* The number (n/d)*sqrt(m) in normal form, for d # 0 and m >= 1.
Mk(n, d, m) ==
  IF n = 0 THEN Zero
  ELSE LET sq == SquareOut(m, 2, 1)
           nn == (IF d < 0 THEN -n ELSE n) * sq[1]
           dd == Abs(d)
           g  == GCD(Abs(nn), dd)
       IN  <<nn \div g, dd \div g, sq[2]>>

Rat(n, d) == Mk(n, d, 1)
Int2N(i) == <<i, 1, 1>>

Sign(x) == IF x[1] > 0 THEN 1 ELSE IF x[1] < 0 THEN -1 ELSE 0

SNeg(x) == <<-x[1], x[2], x[3]>>

SAbs(x) == <<Abs(x[1]), x[2], x[3]>>

\* x * y; the factors are cancelled crosswise before they are multiplied.
SMul(x, y) ==
  IF IsNaN(x) \/ IsNaN(y) THEN NaN
  ELSE IF IsInf(x) \/ IsInf(y)
    THEN (IF Sign(x) * Sign(y) = 0 THEN NaN
          ELSE IF Sign(x) * Sign(y) > 0 THEN PInf ELSE NInf)
  ELSE IF x[1] = 0 \/ y[1] = 0 THEN Zero
  ELSE LET g1 == GCD(Abs(x[1]), y[2])
           g2 == GCD(Abs(y[1]), x[2])
           g3 == GCD(x[3], y[3])
       IN  Mk((x[1] \div g1) * (y[1] \div g2) * g3,
              (x[2] \div g2) * (y[2] \div g1),
              (x[3] \div g3) * (y[3] \div g3))

\* 1 / x for a finite x # 0: d / (n sqrt(m)) = d sqrt(m) / (n m).
SInv(x) == Mk(x[2], x[1] * x[3], x[3])

\* x / y, with the IEEE results of a division by zero.
SDiv(x, y) ==
  IF IsNaN(x) \/ IsNaN(y) THEN NaN
  ELSE IF IsInf(y) THEN (IF IsInf(x) THEN NaN ELSE Zero)
  ELSE IF y[1] = 0
    THEN (IF x[1] = 0 THEN NaN ELSE IF x[1] > 0 THEN PInf ELSE NInf)
  ELSE SMul(x, SInv(y))

\* x + y for two numbers with the same radicand (or one of them zero); the
\* engine never adds numbers with different radicands.
SAdd(x, y) ==
  IF IsNaN(x) \/ IsNaN(y) THEN NaN
  ELSE IF IsInf(x) THEN (IF IsInf(y) /\ x # y THEN NaN ELSE x)
  ELSE IF IsInf(y) THEN y
  ELSE IF x[1] = 0 THEN y
  ELSE IF y[1] = 0 THEN x
  ELSE IF x[3] = y[3]
    THEN LET l == (x[2] \div GCD(x[2], y[2])) * y[2]
         IN  Mk(x[1] * (l \div x[2]) + y[1] * (l \div y[2]), l, x[3])
  ELSE CHOOSE z \in {} : TRUE

SSub(x, y) == SAdd(x, SNeg(y))

\* a/b < c/d for a, c >= 0 and b, d > 0, by comparing the continued
\* fractions: no product is formed, so large terms cannot overflow.
RECURSIVE RLt(_, _, _, _)
RLt(a, b, c, d) ==
  IF a \div b # c \div d THEN a \div b < c \div d
  ELSE IF c % d = 0 THEN FALSE
  ELSE IF a % b = 0 THEN TRUE
  ELSE RLt(d, c % d, b, a % b)

\* x < y for x, y > 0 finite.  With different radicands the rational
\* bounds n/d <= (n/d) sqrt(m) <= n m/d decide most cases; the squares are
\* compared otherwise.
PosLt(x, y) ==
  IF x[3] = y[3] THEN RLt(x[1], x[2], y[1], y[2])
  ELSE IF ~RLt(x[1], x[2], y[1] * y[3], y[2]) THEN FALSE
  ELSE IF RLt(x[1] * x[3], x[2], y[1], y[2]) THEN TRUE
  ELSE RLt(x[1] * x[1] * x[3], x[2] * x[2], y[1] * y[1] * y[3], y[2] * y[2])

\* x < y (a comparison with NaN is false, as in IEEE).
SLt(x, y) ==
  IF IsNaN(x) \/ IsNaN(y) THEN FALSE
  ELSE IF IsInf(x) THEN x = NInf /\ y # NInf
  ELSE IF IsInf(y) THEN y = PInf
  ELSE IF Sign(x) # Sign(y) THEN Sign(x) < Sign(y)
  ELSE IF Sign(x) = 0 THEN FALSE
  ELSE IF Sign(x) > 0 THEN PosLt(x, y)
  ELSE PosLt(SNeg(y), SNeg(x))

SLe(x, y) == (~IsNaN(x) /\ x = y) \/ SLt(x, y)

SGt(x, y) == SLt(y, x)

\* sqrt(x) for a finite rational x >= 0 (radicand 1).
SSqrt(x) ==
  IF IsNaN(x) THEN NaN
  ELSE IF x[1] = 0 THEN Zero
  ELSE Mk(1, x[2], x[1] * x[2])

\* ------------------------------------------------------------------------
\* Vectors (numpy arrays of three floats) and the geometry utilities
\* ------------------------------------------------------------------------

TOL_DEN == 1000000

\* TOLERANCE = 1e-6
TOLERANCE == Rat(1, TOL_DEN)

vec3d(x, y, z) == <<x, y, z>>

zero == vec3d(Zero, Zero, Zero)

VAdd(a, b) == [j \in 1..3 |-> SAdd(a[j], b[j])]

VSub(a, b) == [j \in 1..3 |-> SSub(a[j], b[j])]

\* array * scalar
VScale(a, c) == [j \in 1..3 |-> SMul(a[j], c)]

\* array / scalar
VDiv(a, c) == [j \in 1..3 |-> SDiv(a[j], c)]

\* numpy.dot of two 3-vectors
dot(a, b) == SAdd(SAdd(SMul(a[1], b[1]), SMul(a[2], b[2])), SMul(a[3], b[3]))

\* numpy.linalg.norm: sqrt of the sum of the squares.  A vector with a
\* single non-zero component has the absolute value of that component as
\* its norm; it is taken directly, so that a component below 1e-6 is not
\* squared beyond the integers TLC has.
norm(x) ==
  LET nz == {j \in 1..3 : x[j] # Zero}
  IN  IF \E j \in 1..3 : IsNaN(x[j]) THEN NaN
      ELSE IF Cardinality(nz) = 1 THEN SAbs(x[CHOOSE j \in nz : TRUE])
      ELSE SSqrt(dot(x, x))

length(x) == norm(x)

normalize(x) ==
  LET n == length(x)
  IN  IF SGt(n, TOLERANCE) THEN VDiv(x, n) ELSE zero

\* ------------------------------------------------------------------------
\* Shapes
\* ------------------------------------------------------------------------

\* Plane.__init__: the anchor point, the normalized normal, then the id
\* drawn from Shape._id_gen (the value `gen` of the counter).
Plane(init_point, normal, gen) ==
  [point |-> init_point, normal |-> normalize(normal), id |-> gen]

_distance_to(self, point) == dot(VSub(point, self.point), self.normal)

\* A variant of Plane._intersection_fraction that lets tau = 0 through.
_intersection_fraction_nonneg(self, start, direction) ==
  LET denom == dot(direction, self.normal)
  IN  IF SLt(SAbs(denom), TOLERANCE) THEN PInf
      ELSE LET tau == SDiv(SNeg(_distance_to(self, start)), denom)
           IN  IF SLe(Zero, tau) THEN tau ELSE PInf

_intersection_fraction(self, start, direction) ==
  LET denom == dot(direction, self.normal)
  IN  IF SLt(SAbs(denom), TOLERANCE) THEN PInf
      ELSE LET tau == SDiv(SNeg(_distance_to(self, start)), denom)
           IN  IF SGt(tau, Zero) THEN tau ELSE PInf

distance_to(self, point) == SAbs(_distance_to(self, point))

\* A variant of reflect without the factor 2.
reflect_half(self, point) ==
  VSub(point, VScale(self.normal, _distance_to(self, point)))

reflect(self, point) ==
  VSub(point, VScale(self.normal, SMul(Int2N(2), _distance_to(self, point))))

project(self, point) ==
  VSub(point, VScale(self.normal, _distance_to(self, point)))

\* The shadow-test indent .99999 of the engine.
INDENT_NUM == 99999

INDENT_DEN == 100000

_SHADOWING_INDENT == Rat(INDENT_NUM, INDENT_DEN)

\* Plane.intersect(start, direction) as the tracer of ratracer calls it: for
\* a unit direction the pair <<distance, incidence cosine>> with distance
\* > 0, or the no-intersection sentinel (a NaN distance) when the direction
\* is parallel to the plane within the tolerance or the plane is at or
\* behind the ray origin.
intersect(self, start, direction) ==
  LET tau == _intersection_fraction(self, start, direction)
  IN  IF tau = PInf THEN <<NaN, NaN>>
      ELSE <<tau, dot(direction, self.normal)>>

\* Plane.is_shadowing(start, delta): the plane cuts the segment from start
\* to start + delta at a fraction in (0, 1) of the segment whose far end is
\* moved inwards by the indent.
is_shadowing(self, start, delta) ==
  LET tau == _intersection_fraction(self, start,
                                    VScale(delta, _SHADOWING_INDENT))
  IN  tau # PInf /\ SGt(tau, Zero) /\ SLt(tau, One)

\* utils.inf: the point Plane.intersect returns for no intersection.
inf == vec3d(PInf, PInf, PInf)

\* Plane.is_shadowed(start, end)
Plane_is_shadowed(self, start, end) ==
  LET tau == _intersection_fraction(self, start, VSub(end, start))
  IN  SLe(Zero, tau) /\ SLe(tau, One)

\* Plane.intersect(start, end)
Plane_intersect(self, start, end) ==
  LET direction == VSub(end, start)
      tau == _intersection_fraction(self, start, direction)
  IN  IF tau = PInf THEN inf ELSE VAdd(start, VScale(direction, tau))

\* Empty.is_shadowed(start, end)
Empty_is_shadowed(self, start, end) == FALSE

\* Empty.intersect(start, end)
Empty_intersect(self, start, end) == end

\* What a call of a method the class does not define ends with.
AttributeError == [raised |-> "AttributeError"]

\* Empty().reflect(point): neither Empty nor Shape defines reflect.
Empty_reflect(self, point) == AttributeError

\* A variant of the shadow test of the tracer of radiotracer without the
\* indent.
Tracer_is_shadowed_unindented(scn, start, end) ==
  \E j \in 1..Len(scn) :
    IF "normal" \in DOMAIN scn[j] THEN Plane_is_shadowed(scn[j], start, end)
    ELSE Empty_is_shadowed(scn[j], start, end)

\* Tracer.is_shadowed(start, end) of radiotracer: the far end is moved
\* inwards by the indent, then every shape of the scene is asked.
Tracer_is_shadowed(scn, start, end) ==
  LET end2 == VAdd(start, VScale(VSub(end, start), _SHADOWING_INDENT))
  IN  \E j \in 1..Len(scn) :
        IF "normal" \in DOMAIN scn[j] THEN Plane_is_shadowed(scn[j], start, end2)
        ELSE Empty_is_shadowed(scn[j], start, end2)

\* ------------------------------------------------------------------------
\* The path enumerator
\* ------------------------------------------------------------------------

RECURSIVE Concat(_)
Concat(ss) == IF ss = <<>> THEN <<>> ELSE Head(ss) \o Concat(Tail(ss))

\* A variant of product with the first position running fastest.
RECURSIVE product_first_fastest(_, _)
product_first_fastest(iterables, repeat) ==
  IF repeat = 0 THEN << <<>> >>
  ELSE LET result == product_first_fastest(iterables, repeat - 1)
       IN  Concat([a \in 1..Len(result) |->
                     [b \in 1..Len(iterables) |->
                        <<iterables[b]>> \o result[a]]])

\* A variant of product that takes repeat for 0.
product_ignoring_repeat(iterables, repeat) == << <<>> >>

\* itertools.product(iterables, repeat=repeat): the tuples in odometer
\* order, the last position running fastest.
RECURSIVE product(_, _)
product(iterables, repeat) ==
  IF repeat = 0 THEN << <<>> >>
  ELSE LET result == product(iterables, repeat - 1)
       IN  Concat([a \in 1..Len(result) |->
                     [b \in 1..Len(iterables) |->
                        Append(result[a], iterables[b])]])

\* A variant that forgets next(it_shifted): every element is paired with
\* itself.
has_no_equal_consecutives_unshifted(sequence) ==
  ~ \E j \in 1..Len(sequence) : sequence[j] = sequence[j]

has_no_equal_consecutives(sequence) ==
  ~ \E j \in 1..(Len(sequence) - 1) : sequence[j] = sequence[j + 1]

product_no_consecutives(iterables, repeat) ==
  SelectSeq(product(iterables, repeat), has_no_equal_consecutives)

\* A variant of reversed_enumerate that runs first to last.
enumerate(sequence) == [j \in 1..Len(sequence) |-> <<j, sequence[j]>>]

\* reversed_enumerate(sequence): the pairs <<index, element>>, last first.
reversed_enumerate(sequence) ==
  [j \in 1..Len(sequence) |->
     <<Len(sequence) + 1 - j, sequence[Len(sequence) + 1 - j]>>]

\* ------------------------------------------------------------------------
\* Tracer.Result.  The four lists of a path under construction are one
\* buffer object; `heap` holds the buffer objects that are still referenced,
\* `trace` the references of the saved paths and `temp` the reference of
\* the buffer being built.
\* ------------------------------------------------------------------------

DIR_CODE == 1

LEN_CODE == 2

SID_CODE == 3

AOA_CODE == 4

EmptyBuf == << <<>>, <<>>, <<>>, <<>> >>

\* Drop the buffers nothing refers to and renumber the rest in order (what
\* the garbage collector does; references are compared only for identity).
Collect(R) ==
  LET live == {R.trace[j] : j \in 1..Len(R.trace)} \cup {R.temp}
      IsLive(r) == r \in live
      kept == SelectSeq([r \in 1..Len(R.heap) |-> r], IsLive)
      new(r) == CHOOSE j \in 1..Len(kept) : kept[j] = r
  IN  [R EXCEPT !.heap = SubSeq([j \in 1..Len(kept) |-> R.heap[kept[j]]],
                                1, Len(kept)),
                !.trace = SubSeq([j \in 1..Len(R.trace) |-> new(R.trace[j])],
                                 1, Len(R.trace)),
                !.temp = new(R.temp)]

\* Result.__init__
ResultInit ==
  [heap |-> <<EmptyBuf>>, trace |-> <<>>, temp |-> 1,
   start |-> zero, end |-> zero]

\* A variant of append that fills the lists the point has no value for.
append_padded(R, point) ==
  [R EXCEPT !.heap[R.temp] =
     [c \in 1..4 |-> IF c <= Len(point) THEN Append(@[c], point[c])
                     ELSE Append(@[c], NaN)]]

\* Result.append(*point): zip stops at the shorter of the four lists and
\* the values given.
append(R, point) ==
  [R EXCEPT !.heap[R.temp] =
     [c \in 1..4 |-> IF c <= Len(point) THEN Append(@[c], point[c])
                     ELSE @[c]]]

\* A variant of clear that empties the buffer object being built instead of
\* replacing it.
clear_in_place(R) == [R EXCEPT !.heap[R.temp] = EmptyBuf]

\* Result.clear: a fresh buffer object becomes the one being built.
clear(R) ==
  Collect([R EXCEPT !.heap = Append(R.heap, EmptyBuf),
                    !.temp = Len(R.heap) + 1])

\* A variant of save without the clear.
save_same_buffer(R) ==
  IF R.heap[R.temp][1] # <<>>
    THEN [R EXCEPT !.trace = Append(R.trace, R.temp)]
    ELSE R

\* Result.save
save(R) ==
  IF R.heap[R.temp][1] # <<>>
    THEN clear([R EXCEPT !.trace = Append(R.trace, R.temp)])
    ELSE R

\* A variant of append_last without the append.
append_last_unappended(R, last_point) == save(R)

\* Result.append_last
append_last(R, last_point) == save(append(R, last_point))

\* A variant of refresh that leaves self.trace as it is.
refresh_keeping_trace(R, start, end) ==
  [clear(R) EXCEPT !.start = start, !.end = end]

\* Result.refresh
refresh(R, start, end) ==
  [clear([R EXCEPT !.trace = <<>>]) EXCEPT !.start = start, !.end = end]

\* Result.path_len
path_len(R, idx) == Len(R.heap[R.trace[idx]][DIR_CODE])

\* Result.path: the breakpoints of the idx-th saved path.
RECURSIVE breaks_upto(_, _, _)
breaks_upto(R, idx, n) ==
  IF n = 0 THEN <<R.start>>
  ELSE LET breaks == breaks_upto(R, idx, n - 1)
           direction == R.heap[R.trace[idx]][DIR_CODE][n]
           len == R.heap[R.trace[idx]][LEN_CODE][n]
       IN  Append(breaks, VAdd(breaks[n], VScale(direction, len)))

path(R, idx) == breaks_upto(R, idx, path_len(R, idx))

\* Result.paths
paths(R) == [idx \in 1..Len(R.trace) |-> path(R, idx)]

\* ------------------------------------------------------------------------
\* Bounds and inputs
\* ------------------------------------------------------------------------

\* The most shapes constructed.
MaxShapes == 2

\* The largest max_reflections a query asks for.
MaxReflections == 3

\* The longest tuple asked of the enumerator on its own.
MaxRepeat == 3

\* The number of ids the enumerator is asked about on its own.
MaxIds == 3

\* The largest max_reflections of the queries that run at the same time.
MaxConcReflections == 1

\* The transmitter and receiver positions queries are made with.
Points ==
  { vec3d(Zero, Zero, Int2N(5)),
    vec3d(Zero, Int2N(10), Int2N(5)),
    vec3d(Zero, Int2N(10), Int2N(-5)) }

\* The positions of the queries that run at the same time.
ConcPoints ==
  { vec3d(Zero, Zero, Int2N(5)), vec3d(Zero, Int2N(10), Int2N(5)) }

\* The <<anchor point, normal>> pairs scenes are built from: the ground
\* z = 0 facing up, a ceiling z = 10 facing down (given with a normal of
\* length 2), a plane z = -10 below the ground, and a plane with a zero
\* normal.
PlaneSpecs ==
  { <<vec3d(Zero, Zero, Zero), vec3d(Zero, Zero, One)>>,
    <<vec3d(Zero, Zero, Int2N(10)), vec3d(Zero, Zero, Int2N(-2))>>,
    <<vec3d(Zero, Zero, Int2N(-10)), vec3d(Zero, Zero, One)>>,
    <<vec3d(Zero, Zero, Zero), vec3d(Zero, Zero, Zero)>> }

\* The pairs shapes are constructed from on their own: those above, a
\* tilted plane (its normal (0, 3, 4) has length 5) and a normal of length
\* 1e-7, below the tolerance.
ShapeSpecs ==
  PlaneSpecs \cup
  { <<vec3d(Zero, Zero, Zero), vec3d(Zero, Int2N(3), Int2N(4))>>,
    <<vec3d(Zero, Zero, One), vec3d(Zero, Zero, Rat(1, 10 * TOL_DEN))>> }

\* The points mirrored on their own.
ProbePoints == Points \cup { vec3d(One, Int2N(2), Int2N(3)) }

\* The scenes the repeated-query runs are made in: the empty scene, the
\* ground alone, and the ground with the ceiling.
FixedScenes ==
  { <<>>,
    << <<vec3d(Zero, Zero, Zero), vec3d(Zero, Zero, One)>> >>,
    << <<vec3d(Zero, Zero, Zero), vec3d(Zero, Zero, One)>>,
       <<vec3d(Zero, Zero, Int2N(10)), vec3d(Zero, Zero, Int2N(-2))>> >> }

\* ------------------------------------------------------------------------
\* State
\* ------------------------------------------------------------------------

VARIABLES
  id_gen,    \* Shape._id_gen: the next id the counter hands out
  shapes,    \* the shape objects constructed so far, in order
  assigned,  \* history: the id the counter gave each of them
  tracer,    \* TRUE once the Tracer is constructed
  scene,     \* Tracer.scene: the shapes of the dict, in insertion order
  result,    \* Tracer.result
  frames,    \* per caller: the position and the locals of Tracer.__call__
  origins,   \* history: for each saved path, the candidate that saved it
             \*   and whether a later call has started since
  probe,     \* the last stand-alone operation on a shape or the enumerator
  memo       \* history: one finished query and what it returned

vars ==
  <<id_gen, shapes, assigned, tracer, scene, result, frames, origins, probe,
    memo>>

\* The callers that may hold a frame of Tracer.__call__.
Callers == {1, 2}

IdleFrame ==
  [pc |-> "idle", start |-> zero, end |-> zero, max_reflections |-> 0,
   k |-> 0, it |-> <<>>, sid_sequence |-> <<>>, images |-> <<>>,
   i |-> 0, pos |-> zero,
   \* history: the saved paths when the current candidate started, how the
   \* last candidate ended, the number of candidates enumerated, the number
   \* of saved paths the call found on entry, the saved paths of
   \* self.result when the call returned it
   snap |-> <<>>, outcome |-> "none", ncand |-> 0, dropped |-> 0,
   returned |-> <<>>]

NoProbe == [op |-> "none"]

NoMemo == [set |-> FALSE]

Init ==
  /\ id_gen = 0
  /\ shapes = <<>>
  /\ assigned = <<>>
  /\ tracer = FALSE
  /\ scene = <<>>
  /\ result = ResultInit
  /\ frames = [t \in Callers |-> IdleFrame]
  /\ origins = <<>>
  /\ probe = NoProbe
  /\ memo = NoMemo

\* The saved paths, as their four lists.
Retained(R) == [j \in 1..Len(R.trace) |-> R.heap[R.trace[j]]]

\* origins follows trace: emptied with it, extended when a path is saved.
OriginsAfter(R2, old, who) ==
  IF Len(R2.trace) = 0 THEN <<>>
  ELSE IF Len(R2.trace) = Len(result.trace) + 1
    THEN Append(old, [cand |-> who, stale |-> FALSE])
  ELSE old

\* Every saved path is from before the call that starts now.
Stale(old) == [j \in 1..Len(old) |-> [old[j] EXCEPT !.stale = TRUE]]

\* ------------------------------------------------------------------------
\* Construction
\* ------------------------------------------------------------------------

\* Plane(init_point, normal): next(Shape._id_gen) gives the id.
PlaneInit(init_point, normal) ==
  /\ ~tracer
  /\ Len(shapes) < MaxShapes
  /\ shapes' = Append(shapes, Plane(init_point, normal, id_gen))
  /\ assigned' = Append(assigned, id_gen)
  /\ id_gen' = id_gen + 1
  /\ UNCHANGED <<tracer, scene, result, frames, origins, probe, memo>>

\* numpy.inf as Empty.__str__ stores it in self.id; the counter never
\* hands it out.
INF_ID == -1

\* A Plane has _point and _normal; an Empty has its id alone.
IsPlane(shape) == "normal" \in DOMAIN shape

\* Empty(): Singleton.__call__ constructs the instance on the first call,
\* Shape.__init__ takes its id from the counter; every later call returns
\* the instance there is.
EmptyInit ==
  /\ ~tracer
  /\ Len(shapes) < MaxShapes
  /\ \A j \in 1..Len(shapes) : IsPlane(shapes[j])
  /\ shapes' = Append(shapes, [id |-> id_gen])
  /\ assigned' = Append(assigned, id_gen)
  /\ id_gen' = id_gen + 1
  /\ UNCHANGED <<tracer, scene, result, frames, origins, probe, memo>>

\* shape.__str__(): a Plane returns repr(self); an Empty sets
\* self.id = numpy.inf first.
__str__(shape) ==
  IF IsPlane(shape) THEN shape ELSE [shape EXCEPT !.id = INF_ID]

\* str(shapes[j])
StrOp(j) ==
  /\ shapes' = [shapes EXCEPT ![j] = __str__(shapes[j])]
  /\ UNCHANGED <<id_gen, assigned, tracer, scene, result, frames, origins,
                 probe, memo>>

\* Tracer(scene) for the list of the shapes constructed:
\* self.scene = {shape.id: shape for shape in scene}; self.result = Result()
TracerInit ==
  /\ ~tracer
  /\ tracer' = TRUE
  /\ scene' = shapes
  /\ result' = ResultInit
  /\ UNCHANGED <<id_gen, shapes, assigned, frames, origins, probe, memo>>

\* ------------------------------------------------------------------------
\* Tracer
\* ------------------------------------------------------------------------

\* The keys of self.scene, in insertion order.
scene_ids(scn) == [j \in 1..Len(scn) |-> scn[j].id]

\* self.scene[sid]
shape_of(scn, sid) == scn[CHOOSE j \in 1..Len(scn) : scn[j].id = sid]

\* A variant of Tracer.is_shadowed that asks no shape.
is_shadowed_never(scn, start, delta) == FALSE

\* A variant of Tracer.is_shadowed that asks the first shape only.
is_shadowed_first(scn, start, delta) ==
  Len(scn) > 0 /\ is_shadowing(scn[1], start, delta)

\* Tracer.is_shadowed
is_shadowed(scn, start, delta) ==
  \E j \in 1..Len(scn) : is_shadowing(scn[j], start, delta)

\* A variant of _i_compute_images that mirrors the end point itself in every
\* shape, not the image before.
_i_compute_images_of_point(scn, point, sid_sequence) ==
  [n \in 1..Len(sid_sequence) |-> reflect(shape_of(scn, sid_sequence[n]), point)]

\* Tracer._i_compute_images: images[j] is the end point mirrored in the
\* shapes sid_sequence[1], ..., sid_sequence[j], in that order.
RECURSIVE _i_compute_images(_, _, _)
_i_compute_images(scn, point, sid_sequence) ==
  IF sid_sequence = <<>> THEN <<>>
  ELSE LET n == Len(sid_sequence)
           before == _i_compute_images(scn, point, SubSeq(sid_sequence, 1, n - 1))
           last == IF n = 1 THEN point ELSE before[n - 1]
       IN  Append(before, reflect(shape_of(scn, sid_sequence[n]), last))

\* A variant of ray_step that returns without self.result.clear().
ray_step_unclear(R, scn, start, sid, direction, hit) ==
  LET delta == VScale(direction, hit[1])
  IN  IF IsNaN(hit[1]) \/ is_shadowed(scn, start, delta)
        THEN [ok |-> FALSE, R |-> R, start |-> start]
        ELSE [ok |-> TRUE,
              R |-> append(R, <<direction, hit[1], sid, hit[2]>>),
              start |-> VAdd(start, delta)]

\* One pass of the loop of Tracer._i_compute_ray_path, reflecting at the
\* shape `sid`, given
\*   direction = normalize(images[i] - start)
\*   hit       = <<length, aoa>> = self.scene[sid].intersect(start, direction)
ray_step(R, scn, start, sid, direction, hit) ==
  LET delta == VScale(direction, hit[1])
  IN  IF IsNaN(hit[1]) \/ is_shadowed(scn, start, delta)
        THEN [ok |-> FALSE, R |-> clear(R), start |-> start]
        ELSE [ok |-> TRUE,
              R |-> append(R, <<direction, hit[1], sid, hit[2]>>),
              start |-> VAdd(start, delta)]

\* The end of Tracer._i_compute_ray_path: the segment from `start` to `end`.
ray_last(R, scn, start, end) ==
  LET delta == VSub(end, start)
      len == norm(delta)
      direction == VDiv(delta, len)
  IN  IF is_shadowed(scn, start, delta)
        THEN [ok |-> FALSE, R |-> clear(R)]
        ELSE [ok |-> TRUE, R |-> append_last(R, <<direction, len>>)]

\* Tracer._i_compute_ray_path run to its end on the Result R: the passes
\* i, i - 1, ..., 1 of the loop from `pos`, then the terminal segment.
RECURSIVE walk(_, _, _, _, _, _, _)
walk(R, scn, pos, end, images, sid_sequence, i) ==
  IF i = 0 THEN ray_last(R, scn, pos, end).R
  ELSE LET direction == normalize(VSub(images[i], pos))
           hit == intersect(shape_of(scn, sid_sequence[i]), pos, direction)
           r == ray_step(R, scn, pos, sid_sequence[i], direction, hit)
       IN  IF r.ok
             THEN walk(r.R, scn, r.start, end, images, sid_sequence, i - 1)
             ELSE r.R

\* Tracer._trace_path for each of the candidates, in their order.
RECURSIVE trace_candidates(_, _, _, _, _)
trace_candidates(R, scn, start, end, cands) ==
  IF cands = <<>> THEN R
  ELSE trace_candidates(
         walk(R, scn, start, end,
              _i_compute_images(scn, end, Head(cands)), Head(cands),
              Len(Head(cands))),
         scn, start, end, Tail(cands))

\* The loop of Tracer.__call__ from k on.
RECURSIVE trace_levels(_, _, _, _, _, _)
trace_levels(R, scn, start, end, k, max_reflections) ==
  IF k > max_reflections THEN R
  ELSE trace_levels(
         trace_candidates(R, scn, start, end,
                          product_no_consecutives(scene_ids(scn), k)),
         scn, start, end, k + 1, max_reflections)

\* Tracer.__call__ run from entry to return with nothing in between, on
\* the Result R: the Result it returns.
__call__(R, scn, start, end, max_reflections) ==
  trace_levels(refresh(R, start, end), scn, start, end, 0, max_reflections)

\* Tracer.__call__, entry: self.result.refresh(start, end), then the loop
\* over k starts.
Call(t, start, end, max_reflections) ==
  /\ tracer
  /\ frames[t].pc \in {"idle", "done"}
  /\ result' = refresh(result, start, end)
  /\ origins' = OriginsAfter(result', Stale(origins), <<>>)
  /\ frames' = [frames EXCEPT ![t] =
       [IdleFrame EXCEPT !.pc = "level", !.start = start, !.end = end,
                         !.max_reflections = max_reflections,
                         !.pos = start,
                         !.dropped = Len(result.trace)]]
  /\ memo' = IF memo.set /\ memo.query # <<start, end, max_reflections>>
               THEN [memo EXCEPT !.between = TRUE]
               ELSE memo
  /\ UNCHANGED <<id_gen, shapes, assigned, tracer, scene, probe>>

\* for k in range(max_reflections + 1): the next k, and its enumerator.
Level(t) ==
  /\ frames[t].pc = "level"
  /\ frames[t].k <= frames[t].max_reflections
  /\ frames' = [frames EXCEPT ![t].pc = "cand", ![t].dropped = 0,
       ![t].it = product_no_consecutives(scene_ids(scene), frames[t].k)]
  /\ UNCHANGED <<id_gen, shapes, assigned, tracer, scene, result, origins, probe, memo>>

\* The range is exhausted: return self.result.
Return(t) ==
  /\ frames[t].pc = "level"
  /\ frames[t].k > frames[t].max_reflections
  /\ frames' = [frames EXCEPT ![t] =
       [IdleFrame EXCEPT !.pc = "done", !.start = frames[t].start,
                         !.end = frames[t].end,
                         !.max_reflections = frames[t].max_reflections,
                         !.k = frames[t].k,
                         !.ncand = frames[t].ncand,
                         !.returned = Retained(result)]]
  /\ UNCHANGED <<id_gen, shapes, assigned, tracer, scene, result, origins, probe, memo>>

\* The enumerator of this k is exhausted.
LevelDone(t) ==
  /\ frames[t].pc = "cand"
  /\ frames[t].it = <<>>
  /\ frames' = [frames EXCEPT ![t].pc = "level", ![t].k = @ + 1]
  /\ UNCHANGED <<id_gen, shapes, assigned, tracer, scene, result, origins, probe, memo>>

\* A variant of TakeCandidate in which mirroring in a shape turns the
\* shape's normal round in place.
TakeCandidate_flipping(t) ==
  /\ frames[t].pc = "cand"
  /\ frames[t].it # <<>>
  /\ LET sid_sequence == Head(frames[t].it)
     IN  /\ frames' = [frames EXCEPT ![t].pc = "walk",
               ![t].it = Tail(@),
               ![t].sid_sequence = sid_sequence,
               ![t].images =
                 _i_compute_images(scene, frames[t].end, sid_sequence),
               ![t].i = Len(sid_sequence),
               ![t].pos = frames[t].start,
               ![t].snap = Retained(result),
               ![t].outcome = "none",
               ![t].ncand = @ + 1]
         /\ scene' = [j \in 1..Len(scene) |->
               IF \E a \in 1..Len(sid_sequence) : sid_sequence[a] = scene[j].id
                 THEN [scene[j] EXCEPT !.normal = VScale(@, Int2N(-1))]
                 ELSE scene[j]]
  /\ UNCHANGED <<id_gen, shapes, assigned, tracer, result, origins, probe,
                 memo>>

\* The enumerator yields sid_sequence; _trace_path computes the images.
TakeCandidate(t) ==
  /\ frames[t].pc = "cand"
  /\ frames[t].it # <<>>
  /\ LET sid_sequence == Head(frames[t].it)
     IN  frames' = [frames EXCEPT ![t].pc = "walk",
           ![t].it = Tail(@),
           ![t].sid_sequence = sid_sequence,
           ![t].images = _i_compute_images(scene, frames[t].end, sid_sequence),
           ![t].i = Len(sid_sequence),
           ![t].pos = frames[t].start,
           ![t].snap = Retained(result),
           ![t].outcome = "none",
           ![t].ncand = @ + 1]
  /\ UNCHANGED <<id_gen, shapes, assigned, tracer, scene, result, origins, probe, memo>>

\* A variant of WalkStep in which a candidate that fails raises instead of
\* clearing the path and returning None.
WalkStep_raising(t) ==
  /\ frames[t].pc = "walk"
  /\ frames[t].i >= 1
  /\ \E pair \in {reversed_enumerate(frames[t].sid_sequence)
                    [Len(frames[t].sid_sequence) + 1 - frames[t].i]} :
     \E direction \in {normalize(VSub(frames[t].images[pair[1]],
                                      frames[t].pos))} :
     \E hit \in {intersect(shape_of(scene, pair[2]), frames[t].pos,
                           direction)} :
     \E r \in {ray_step(result, scene, frames[t].pos, pair[2],
                        direction, hit)} :
       /\ result' = IF r.ok THEN r.R ELSE result
       /\ origins' = origins
       /\ frames' = [frames EXCEPT ![t] =
            IF r.ok THEN [@ EXCEPT !.i = @ - 1, !.pos = r.start]
            ELSE [@ EXCEPT !.pc = "raised", !.outcome = "failed"]]
  /\ UNCHANGED <<id_gen, shapes, assigned, tracer, scene, probe, memo>>

\* One pass of the loop of _i_compute_ray_path: i and sid come from
\* reversed_enumerate(sid_sequence).
WalkStep(t) ==
  /\ frames[t].pc = "walk"
  /\ frames[t].i >= 1
  /\ \E pair \in {reversed_enumerate(frames[t].sid_sequence)
                    [Len(frames[t].sid_sequence) + 1 - frames[t].i]} :
     \E direction \in {normalize(VSub(frames[t].images[pair[1]],
                                      frames[t].pos))} :
     \E hit \in {intersect(shape_of(scene, pair[2]), frames[t].pos,
                           direction)} :
     \E r \in {ray_step(result, scene, frames[t].pos, pair[2],
                        direction, hit)} :
       /\ result' = r.R
       /\ origins' = OriginsAfter(r.R, origins, frames[t].sid_sequence)
       /\ frames' = [frames EXCEPT ![t] =
            IF r.ok THEN [@ EXCEPT !.i = @ - 1, !.pos = r.start]
            ELSE [@ EXCEPT !.pc = "cand", !.outcome = "failed"]]
  /\ UNCHANGED <<id_gen, shapes, assigned, tracer, scene, probe, memo>>

\* The last segment of _i_compute_ray_path.
Terminal(t) ==
  /\ frames[t].pc = "walk"
  /\ frames[t].i = 0
  /\ \E r \in {ray_last(result, scene, frames[t].pos, frames[t].end)} :
       /\ result' = r.R
       /\ origins' = OriginsAfter(r.R, origins, frames[t].sid_sequence)
       /\ frames' = [frames EXCEPT ![t].pc = "cand",
            ![t].outcome = IF r.ok THEN "saved" ELSE "failed"]
  /\ UNCHANGED <<id_gen, shapes, assigned, tracer, scene, probe, memo>>

\* ------------------------------------------------------------------------
\* Operations on a shape and on the enumerator, on their own
\* ------------------------------------------------------------------------

\* shapes[j].reflect(x)
ReflectOp(j, x) ==
  /\ probe.op = "none"
  /\ IsPlane(shapes[j])
  /\ probe' = [op |-> "reflect", shape |-> shapes[j], x |-> x,
               once |-> reflect(shapes[j], x),
               cur |-> reflect(shapes[j], x), n |-> 1]
  /\ UNCHANGED <<id_gen, shapes, assigned, tracer, scene, result, frames, origins, memo>>

\* The same shape reflects the point it returned.
ReflectAgain ==
  /\ probe.op = "reflect"
  /\ probe.n = 1
  /\ probe' = [probe EXCEPT !.cur = reflect(probe.shape, probe.cur),
                            !.n = 2]
  /\ UNCHANGED <<id_gen, shapes, assigned, tracer, scene, result, frames, origins, memo>>

\* The lists of distinct ids among 0 .. MaxIds - 1, as the keys of a dict.
IdLists ==
  UNION { { f \in [1..n -> 0..(MaxIds - 1)] :
              \A a, b \in 1..n : a # b => f[a] # f[b] } : n \in 0..MaxIds }

\* list(product_no_consecutives(iterables, repeat=repeat))
EnumOp(iterables, repeat) ==
  /\ probe.op = "none"
  /\ probe' = [op |-> "product", iterables |-> iterables, repeat |-> repeat,
               out |-> product_no_consecutives(iterables, repeat)]
  /\ UNCHANGED <<id_gen, shapes, assigned, tracer, scene, result, frames, origins, memo>>

\* The origins of the rays intersected with a plane on their own: the
\* points of the queries and a reflection point on the ground.
RayOrigins == Points \cup { vec3d(Zero, Int2N(5), Zero) }

\* The segments <<start, end>> the shadow test is asked about on its own:
\* those between these points, and a long one that ends 1 behind the
\* ground.
Segments ==
  (RayOrigins \X RayOrigins)
    \cup { <<vec3d(Zero, Zero, Int2N(199999)), vec3d(Zero, Zero, Int2N(-1))>> }

\* Their directions: along the axes, tilted towards and away from the
\* ground, and 1e-7 off the horizontal.
Directions ==
  { vec3d(Zero, Zero, One), vec3d(Zero, Zero, Int2N(-1)),
    vec3d(Zero, One, Zero),
    vec3d(Zero, Rat(3, 5), Rat(4, 5)), vec3d(Zero, Rat(3, 5), Rat(-4, 5)),
    vec3d(Zero, One, Rat(-1, 10 * TOL_DEN)) }

\* Tracer.is_shadowed(start, end) of radiotracer over a scene of the one
\* shape shapes[j], and the shape's own is_shadowed(start, end).
ShadowOp(j, start, end) ==
  /\ probe.op = "none"
  /\ probe' = [op |-> "is_shadowed", shape |-> shapes[j],
               start |-> start, end |-> end,
               out |-> Tracer_is_shadowed(<<shapes[j]>>, start, end),
               raw |-> IF IsPlane(shapes[j])
                         THEN Plane_is_shadowed(shapes[j], start, end)
                         ELSE Empty_is_shadowed(shapes[j], start, end)]
  /\ UNCHANGED <<id_gen, shapes, assigned, tracer, scene, result, frames, origins, memo>>

\* shapes[j]._intersection_fraction(start, direction) and
\* shapes[j].intersect(start, start + direction) for a Plane.
IntersectOp(j, start, direction) ==
  /\ probe.op = "none"
  /\ IsPlane(shapes[j])
  /\ probe' = [op |-> "intersect", shape |-> shapes[j],
               start |-> start, direction |-> direction,
               tau |-> _intersection_fraction(shapes[j], start, direction),
               point |-> Plane_intersect(shapes[j], start,
                                         VAdd(start, direction))]
  /\ UNCHANGED <<id_gen, shapes, assigned, tracer, scene, result, frames, origins, memo>>

\* The three operations on the Empty shapes[j]: is_shadowed(start, end),
\* intersect(start, end) and reflect(end).
EmptyOp(j, start, end) ==
  /\ probe.op = "none"
  /\ ~IsPlane(shapes[j])
  /\ probe' = [op |-> "empty", shape |-> shapes[j],
               start |-> start, end |-> end,
               is_shadowed |-> Empty_is_shadowed(shapes[j], start, end),
               intersect |-> Empty_intersect(shapes[j], start, end),
               reflect |-> Empty_reflect(shapes[j], end)]
  /\ UNCHANGED <<id_gen, shapes, assigned, tracer, scene, result, frames, origins, memo>>

\* history: remember the query that has just returned and its result.
Remember(t) ==
  /\ frames[t].pc = "done"
  /\ ~memo.set
  /\ memo' = [set |-> TRUE,
              query |-> <<frames[t].start, frames[t].end,
                          frames[t].max_reflections>>,
              trace |-> Retained(result),
              between |-> FALSE]
  /\ UNCHANGED <<id_gen, shapes, assigned, tracer, scene, result, frames, origins, probe>>

\* ------------------------------------------------------------------------
\* Specifications
\* ------------------------------------------------------------------------

\* One caller: shapes are constructed, the Tracer is constructed over them,
\* and queries are made one after the other.
Next ==
  \/ \E ps \in PlaneSpecs : PlaneInit(ps[1], ps[2])
  \/ TracerInit
  \/ \E start \in Points, end \in Points, m \in (-1)..MaxReflections :
       Call(1, start, end, m)
  \/ Level(1)
  \/ Return(1)
  \/ LevelDone(1)
  \/ TakeCandidate(1)
  \/ WalkStep(1)
  \/ Terminal(1)

Spec == Init /\ [][Next]_vars

\* Shapes and the enumerator on their own.
NextOps ==
  \/ \E ps \in ShapeSpecs : PlaneInit(ps[1], ps[2])
  \/ EmptyInit
  \/ \E j \in 1..Len(shapes) : StrOp(j)
  \/ \E j \in 1..Len(shapes), x \in ProbePoints : ReflectOp(j, x)
  \/ ReflectAgain
  \/ \E iterables \in IdLists, repeat \in 0..MaxRepeat :
       EnumOp(iterables, repeat)
  \/ \E j \in 1..Len(shapes), seg \in Segments : ShadowOp(j, seg[1], seg[2])
  \/ \E j \in 1..Len(shapes), start \in RayOrigins, direction \in Directions :
       IntersectOp(j, start, direction)
  \/ \E j \in 1..Len(shapes), start \in ProbePoints, end \in ProbePoints :
       EmptyOp(j, start, end)

SpecOps == Init /\ [][NextOps]_vars

\* Repeated queries on a Tracer over one of the fixed scenes.
RECURSIVE build(_, _)
build(specs, gen) ==
  IF specs = <<>> THEN <<>>
  ELSE <<Plane(Head(specs)[1], Head(specs)[2], gen)>>
         \o build(Tail(specs), gen + 1)

InitDet ==
  \E specs \in FixedScenes :
    /\ id_gen = Len(specs)
    /\ shapes = build(specs, 0)
    /\ assigned = [j \in 1..Len(specs) |-> j - 1]
    /\ tracer = TRUE
    /\ scene = shapes
    /\ result = ResultInit
    /\ frames = [t \in Callers |-> IdleFrame]
    /\ origins = <<>>
    /\ probe = NoProbe
    /\ memo = NoMemo

NextDet ==
  \/ \E start \in Points, end \in Points, m \in (-1)..MaxReflections :
       Call(1, start, end, m)
  \/ Level(1)
  \/ Return(1)
  \/ LevelDone(1)
  \/ TakeCandidate(1)
  \/ WalkStep(1)
  \/ Terminal(1)
  \/ Remember(1)

SpecDet == InitDet /\ [][NextDet]_vars

\* A caller's one query in the runs where the callers' queries overlap.
ConcCall(t, start, end, max_reflections) ==
  /\ frames[t].pc = "idle"
  /\ Call(t, start, end, max_reflections)

\* Two callers query one Tracer over one of the fixed scenes; a step of
\* either may follow a step of the other.
NextConc ==
  \E t \in Callers :
    \/ \E start \in ConcPoints, m \in 0..MaxConcReflections :
         \E end \in ConcPoints \ {start} : ConcCall(t, start, end, m)
    \/ Level(t)
    \/ Return(t)
    \/ LevelDone(t)
    \/ TakeCandidate(t)
    \/ WalkStep(t)
    \/ Terminal(t)

SpecConc == InitDet /\ [][NextConc]_vars

\* ------------------------------------------------------------------------
\* Properties
\* ------------------------------------------------------------------------

Done(t) == frames[t].pc = "done"

Reversed(seq) == [j \in 1..Len(seq) |-> seq[Len(seq) + 1 - j]]

\* The reflector ids recorded for the j-th saved path.
SidsOf(j) == Retained(result)[j][SID_CODE]

\* C1: a trace with max_reflections = 0 returns exactly one path, the
\* direct segment from start to end (breakpoints start, end), when no shape
\* of the scene shadows that segment, and no path when one does.
C1_DirectPathOrNone ==
  \A t \in Callers :
    Done(t) /\ frames[t].max_reflections = 0 =>
      IF is_shadowed(scene, frames[t].start,
                     VSub(frames[t].end, frames[t].start))
        THEN Len(result.trace) = 0
        ELSE /\ Len(result.trace) = 1
             /\ path(result, 1) = <<frames[t].start, frames[t].end>>

\* C2: product_no_consecutives(S, repeat=k) yields exactly the k-tuples
\* over S without two equal adjacent entries, each once; k = 0 yields the
\* empty tuple alone.
C2_EnumeratorExact ==
  probe.op = "product" =>
    LET S == {probe.iterables[j] : j \in 1..Len(probe.iterables)}
        k == probe.repeat
        want == {tp \in [1..k -> S] : \A j \in 1..(k - 1) : tp[j] # tp[j + 1]}
    IN  /\ {probe.out[j] : j \in 1..Len(probe.out)} = want
        /\ Len(probe.out) = Cardinality(want)
        /\ (k = 0 => probe.out = << <<>> >>)

\* C2 witness: a tuple that repeats an id at non-adjacent positions is
\* yielded, from a set where adjacent repeats had to be left out.
C2_Witness ==
  /\ probe.op = "product"
  /\ probe.repeat = 3
  /\ \E j \in 1..Len(probe.out) :
       probe.out[j][1] = probe.out[j][3] /\ probe.out[j][1] # probe.out[j][2]

\* C3: no saved path has the same surface id as the reflector of two
\* consecutive segments.
C3_NoAdjacentRepeat ==
  \A j \in 1..Len(result.trace) :
    \A a \in 1..(Len(SidsOf(j)) - 1) : SidsOf(j)[a] # SidsOf(j)[a + 1]

\* C3 witness: a call returned a path that reflects three times, the first
\* and the third time at the same surface.
C3_Witness ==
  /\ Done(1)
  /\ \E j \in 1..Len(result.trace) :
       Len(SidsOf(j)) = 3 /\ SidsOf(j)[1] = SidsOf(j)[3]

\* C4: a path saved for a candidate sequence of length k has k + 1
\* segments, as path_len reports.
C4_SegmentCount ==
  /\ Len(origins) = Len(result.trace)
  /\ \A j \in 1..Len(result.trace) :
       path_len(result, j) = Len(origins[j].cand) + 1

\* C4 witness: a path saved for a candidate of two reflectors.
C4_Witness ==
  \E j \in 1..Len(result.trace) :
    j <= Len(origins) /\ Len(origins[j].cand) = 2 /\ path_len(result, j) = 3

\* C5: a candidate that fails adds nothing: the saved paths are those of
\* before the candidate, the buffer under construction is empty whenever
\* the next candidate is about to start, and every saved path holds the
\* reflectors of the candidate that saved it and no others.
C5_FailedCandidateAddsNothing ==
  /\ \A t \in Callers :
       /\ frames[t].pc = "cand" /\ frames[t].outcome = "failed"
            => Retained(result) = frames[t].snap
       /\ frames[t].pc = "cand" => result.heap[result.temp] = EmptyBuf
  /\ Len(origins) = Len(result.trace)
  /\ \A j \in 1..Len(result.trace) : SidsOf(j) = Reversed(origins[j].cand)

\* C5 witness: a candidate failed after a segment had been recorded for it,
\* with a path saved earlier in the call.
C5_Witness ==
  /\ frames[1].pc = "cand"
  /\ frames[1].outcome = "failed"
  /\ frames[1].i < Len(frames[1].sid_sequence)
  /\ Len(result.trace) > 0

\* C6: the result holds the paths of the most recent call only: no saved
\* path is from before the call, the result's start and end are the
\* query's, and right after the refresh there is no saved path and the
\* buffer under construction is empty.
C6_OnlyLatestCall ==
  /\ Len(origins) = Len(result.trace)
  /\ \A j \in 1..Len(origins) : ~origins[j].stale
  /\ \A t \in Callers :
       /\ frames[t].pc # "idle"
            => result.start = frames[t].start /\ result.end = frames[t].end
       /\ frames[t].pc = "level" /\ frames[t].k = 0
            => result.trace = <<>> /\ result.heap[result.temp] = EmptyBuf

\* C6 witness: a call has just refreshed a result that held saved paths,
\* for a query with other end points.
C6_Witness ==
  /\ frames[1].pc = "level"
  /\ frames[1].k = 0
  /\ frames[1].dropped > 1
  /\ result.trace = <<>>

\* C7: a query returns what the same query returned before on this Tracer,
\* the same paths in the same order, whatever was asked in between.
C7_Deterministic ==
  \A t \in Callers :
    /\ Done(t)
    /\ memo.set
    /\ memo.query = <<frames[t].start, frames[t].end,
                      frames[t].max_reflections>>
    => Retained(result) = memo.trace

\* C7 witness: the remembered query returns again, with more than one path,
\* after a different query was made.
C7_Witness ==
  /\ Done(1)
  /\ memo.set
  /\ memo.between
  /\ memo.query = <<frames[1].start, frames[1].end,
                    frames[1].max_reflections>>
  /\ Len(memo.trace) > 1

\* C8: a call with a negative max_reflections is rejected: it never
\* returns a result.
C8_NegativeBoundRejected ==
  \A t \in Callers : Done(t) => frames[t].max_reflections >= 0

\* C9: constructing a Plane with a degenerate normal fails, so every Plane
\* that exists has a normal of length 1.
C9_NormalsAreUnit ==
  \A j \in 1..Len(shapes) : dot(shapes[j].normal, shapes[j].normal) = One

\* C10: mirroring is an involution: p.reflect(p.reflect(x)) = x.
C10_ReflectInvolution ==
  probe.op = "reflect" /\ probe.n = 2 => probe.cur = probe.x

\* C10 witness: a point off a tilted plane was mirrored twice, and the
\* first image was another point.
C10_Witness ==
  /\ probe.op = "reflect"
  /\ probe.n = 2
  /\ probe.once # probe.x
  /\ probe.shape.normal[2] # Zero

\* C11: every shape keeps the id the counter gave it at construction,
\* whatever is done with the shape afterwards (string conversion included),
\* the ids of the shapes are pairwise distinct, and no id is handed out
\* twice.
C11_IdsStableAndDistinct ==
  /\ Len(assigned) = Len(shapes)
  /\ \A j \in 1..Len(shapes) : shapes[j].id = assigned[j]
  /\ \A a, b \in 1..Len(shapes) : a # b =>
       shapes[a].id # shapes[b].id /\ assigned[a] # assigned[b]

\* C12: no step of a trace call changes the scene: the Tracer's mapping
\* keeps its keys, and every shape in it keeps its anchor point, its normal
\* and its id.
C12_SceneUnchanged == [][tracer => scene' = scene]_vars

\* C12 witness: a call over a scene of two planes has returned paths with
\* reflections, and the scene is the list of shapes the Tracer was given.
C12_Witness ==
  /\ Done(1)
  /\ Len(scene) = 2
  /\ scene = shapes
  /\ \E j \in 1..Len(result.trace) : Len(SidsOf(j)) >= 2

\* C13: when the queries of two callers on one Tracer overlap, under every
\* interleaving of their steps each call returns the paths the same query
\* returns when it runs from entry to return with nothing in between.
C13_ConcurrentAsAlone ==
  \A t \in Callers :
    Done(t) =>
      frames[t].returned =
        Retained(__call__(ResultInit, scene, frames[t].start, frames[t].end,
                          frames[t].max_reflections))

\* The scene without its h-th shape.
Without(scn, h) ==
  [j \in 1..(Len(scn) - 1) |-> IF j < h THEN scn[j] ELSE scn[j + 1]]

\* The plane `hidden` lies entirely behind the plane `front` as seen from
\* both end points: the two are parallel, the end points are strictly on
\* one side of `front` and the points of `hidden` strictly on the other.
Behind(hidden, front, start, end) ==
  LET ds == _distance_to(front, start)
      de == _distance_to(front, end)
      dh == _distance_to(front, hidden.point)
  IN  /\ dot(front.normal, front.normal) = One
      /\ hidden.normal \in {front.normal, VScale(front.normal, Int2N(-1))}
      /\ Sign(ds) # 0
      /\ Sign(de) = Sign(ds)
      /\ Sign(dh) = -Sign(ds)

\* C14: a plane of the scene that lies entirely behind another plane, as
\* seen from both end points of the query, changes nothing: the call
\* returns as many paths, with the same breakpoints, as the same query over
\* the scene without that plane, and the plane's id is in no saved path's
\* reflector list.
C14_UnreachablePlaneUnused ==
  \A t \in Callers :
    Done(t) /\ frames[t].max_reflections >= 0 =>
      \A h \in 1..Len(scene) :
        (\E f \in 1..Len(scene) :
           Behind(scene[h], scene[f], frames[t].start, frames[t].end))
        => /\ paths(result) =
                paths(__call__(ResultInit, Without(scene, h), frames[t].start,
                               frames[t].end, frames[t].max_reflections))
           /\ \A j \in 1..Len(result.trace) :
                \A a \in 1..Len(SidsOf(j)) : SidsOf(j)[a] # scene[h].id

\* C14 witness: the query of test_unused_plane, with bound 3, has returned
\* its two paths over the ground and the plane z = -10 behind it.
C14_Witness ==
  /\ Done(1)
  /\ frames[1].max_reflections = 3
  /\ frames[1].start # frames[1].end
  /\ Len(scene) = 2
  /\ \E h, f \in 1..Len(scene) :
       Behind(scene[h], scene[f], frames[1].start, frames[1].end)
  /\ Len(result.trace) = 2

\* C15: over the empty scene a query between two distinct points with any
\* max_reflections >= 0 returns exactly one path, with breakpoints start,
\* end: the empty tuple is the only candidate the enumerator yields.
C15_EmptySceneDirectOnly ==
  \A t \in Callers :
    Done(t) /\ scene = <<>> /\ frames[t].max_reflections >= 0
            /\ frames[t].start # frames[t].end
    => /\ Len(result.trace) = 1
       /\ path(result, 1) = <<frames[t].start, frames[t].end>>
       /\ frames[t].ncand = 1

\* C15 witness: the query of test_empty_scene, with bound 3, has returned.
C15_Witness ==
  /\ tracer
  /\ Done(1)
  /\ scene = <<>>
  /\ frames[1].max_reflections = 3
  /\ frames[1].start # frames[1].end
  /\ Len(result.trace) = 1

\* start and end are off the plane and on the same side of it.
SameSideOff(self, start, end) ==
  SGt(SMul(_distance_to(self, start), _distance_to(self, end)), Zero)

\* The specular point of the plane for start and end: the point between
\* their feet on the plane that divides the stretch in the ratio of their
\* distances to the plane.
Specular(self, start, end) ==
  LET ds == distance_to(self, start)
      de == distance_to(self, end)
      fs == project(self, start)
      fe == project(self, end)
  IN  VAdd(fs, VScale(VSub(fe, fs), SDiv(ds, SAdd(ds, de))))

\* C16: in a scene of one plane, with start and end off the plane and on
\* the same side of it, a query with any max_reflections >= 1 returns
\* exactly two paths: start, end and start, specular point, end.
C16_SinglePlaneTwoPaths ==
  \A t \in Callers :
    Done(t) /\ Len(scene) = 1 /\ frames[t].max_reflections >= 1
            /\ SameSideOff(scene[1], frames[t].start, frames[t].end)
    => /\ Len(result.trace) = 2
       /\ { path(result, j) : j \in 1..2 }
            = { <<frames[t].start, frames[t].end>>,
                <<frames[t].start,
                  Specular(scene[1], frames[t].start, frames[t].end),
                  frames[t].end>> }

\* Two planes are parallel and face each other: their normals are opposite
\* and each lies on the side the other's normal points to.
Facing(a, b) ==
  /\ a.normal = VScale(b.normal, Int2N(-1))
  /\ SGt(_distance_to(a, b.point), Zero)
  /\ SGt(_distance_to(b, a.point), Zero)

\* The point is strictly between two planes that face each other.
StrictlyBetween(a, b, point) ==
  SGt(_distance_to(a, point), Zero) /\ SGt(_distance_to(b, point), Zero)

\* The breakpoints are those of the image construction for the reflectors
\* sids met from start to end: they run from start to end, and each one in
\* between is the specular point of its reflector for its two neighbours.
ImagePath(scn, breaks, sids, start, end) ==
  /\ Len(breaks) = Len(sids) + 2
  /\ breaks[1] = start
  /\ breaks[Len(breaks)] = end
  /\ \A i \in 1..Len(sids) :
       breaks[i + 1] = Specular(shape_of(scn, sids[i]), breaks[i], breaks[i + 2])

\* C17: between two parallel planes that face each other every candidate
\* yields a retained path: a query with bound m returns 1 + 2 m paths (7 for
\* bound 3), each with the breakpoints of the image construction.
C17_FacingPlanesAllRetained ==
  \A t \in Callers :
    Done(t) /\ Len(scene) = 2 /\ frames[t].max_reflections >= 0
            /\ Facing(scene[1], scene[2])
            /\ StrictlyBetween(scene[1], scene[2], frames[t].start)
            /\ StrictlyBetween(scene[1], scene[2], frames[t].end)
    => /\ Len(result.trace) = frames[t].ncand
       /\ Len(result.trace) = 1 + 2 * frames[t].max_reflections
       /\ \A j \in 1..Len(result.trace) :
            ImagePath(scene, path(result, j), SidsOf(j),
                      frames[t].start, frames[t].end)

\* C18: for every retained path with n segments, path(idx) returns n + 1
\* breakpoints: the first is the query's start, each next one is the
\* previous one plus direction times length of its segment, and the last is
\* the query's end.
C18_BreakpointsFromStartToEnd ==
  \A t \in Callers :
    Done(t) =>
      \A idx \in 1..Len(result.trace) :
        LET n == path_len(result, idx)
            buf == result.heap[result.trace[idx]]
            breaks == path(result, idx)
        IN  /\ Len(breaks) = n + 1
            /\ breaks[1] = frames[t].start
            /\ \A i \in 1..n :
                 breaks[i + 1] = VAdd(breaks[i],
                                      VScale(buf[DIR_CODE][i], buf[LEN_CODE][i]))
            /\ breaks[n + 1] = frames[t].end

\* The i-th segment of a path with these breakpoints ends on the shape sid.
EndsOn(breaks, i, sid) ==
  _distance_to(shape_of(scene, sid), breaks[i + 1]) = Zero

SegmentDelta(breaks, i) ==
  VSub(IF i = Len(breaks) - 1 THEN result.end ELSE breaks[i + 1], breaks[i])

\* C20: a candidate is retained only if no shape of the whole scene, in the
\* candidate or not, shadows any of its segments, the terminal one
\* included: no segment of a path of a returned call is shadowed by any
\* shape of the scene.
C20_RetainedOnlyIfUnshadowed ==
  \A t \in Callers :
    Done(t) =>
      \A idx \in 1..Len(result.trace) :
        \E breaks \in {path(result, idx)} :
          \A i \in 1..(Len(breaks) - 1) :
            \A h \in 1..Len(scene) :
              ~is_shadowing(scene[h], breaks[i], SegmentDelta(breaks, i))

\* C20 witness: a candidate of one reflector has just been discarded though
\* its plane is hit: a shape that is not in the candidate shadows the
\* segment to the reflection point.
C20_Witness ==
  /\ frames[1].pc = "cand"
  /\ frames[1].outcome = "failed"
  /\ Len(frames[1].sid_sequence) = 1
  /\ LET direction == normalize(VSub(frames[1].images[1], frames[1].start))
         hit == intersect(shape_of(scene, frames[1].sid_sequence[1]),
                          frames[1].start, direction)
     IN  /\ ~IsNaN(hit[1])
         /\ \E h \in 1..Len(scene) :
              /\ scene[h].id # frames[1].sid_sequence[1]
              /\ is_shadowing(scene[h], frames[1].start,
                              VScale(direction, hit[1]))

\* C21: at every reflection of a retained path the incoming and the
\* outgoing segment lie on the same side of the reflecting plane: the
\* breakpoint before the reflection and the one after it are not on
\* opposite sides, so the path bounces off the plane and does not pass
\* through it.
C21_BouncesNeverPassesThrough ==
  \A t \in Callers :
    Done(t) =>
      \A j \in 1..Len(result.trace) :
        \E breaks \in {path(result, j)} :
          \A i \in 1..Len(SidsOf(j)) :
            ~SLt(SMul(_distance_to(shape_of(scene, SidsOf(j)[i]), breaks[i]),
                      _distance_to(shape_of(scene, SidsOf(j)[i]), breaks[i + 2])),
                 Zero)

\* The point lies on the plane.
OnPlane(self, point) == _distance_to(self, point) = Zero

\* C22: in the shadow test of a segment, a plane the segment starts on or
\* ends on is not reported as shadowing.
C22_NoSelfShadow ==
  probe.op = "is_shadowed" /\ IsPlane(probe.shape)
    /\ (OnPlane(probe.shape, probe.start) \/ OnPlane(probe.shape, probe.end))
  => probe.out = FALSE

\* C22 witness: the segment ends on the plane it was aimed at and starts off
\* it; the plane's own test of the whole segment is positive, the shadow
\* test of the tracer is not.
C22_Witness ==
  /\ probe.op = "is_shadowed"
  /\ IsPlane(probe.shape)
  /\ OnPlane(probe.shape, probe.end)
  /\ ~OnPlane(probe.shape, probe.start)
  /\ probe.raw = TRUE
  /\ probe.out = FALSE

\* The plane cuts the segment at a point strictly between its ends: the
\* ends are off the plane, on opposite sides of it.
Crosses(self, start, end) ==
  SLt(SMul(_distance_to(self, start), _distance_to(self, end)), Zero)

\* C23: the shadow test of a plane on a segment is true if and only if the
\* plane intersects the open segment strictly between start and end.
C23_ShadowIffCrossesOpenSegment ==
  probe.op = "is_shadowed" /\ IsPlane(probe.shape)
  => (probe.out <=> Crosses(probe.shape, probe.start, probe.end))

InProgress(t) == frames[t].pc \notin {"idle", "done"}

\* What is left of a call: the levels after the current one, whether the
\* enumerator of the level is still to be made, the candidates left in it,
\* whether a candidate is being walked, and the reflections left of its
\* walk.
Rank(f) ==
  <<f.max_reflections - f.k,
    IF f.pc = "level" THEN 1 ELSE 0,
    Len(f.it),
    IF f.pc = "walk" THEN 1 ELSE 0,
    f.i>>

\* a comes before b in the lexicographic order.
LexLess(a, b) ==
  \E n \in 1..Len(a) : a[n] < b[n] /\ \A m \in 1..(n - 1) : a[m] = b[m]

C26_AimedPointMirrorsNextAim ==
  \A t \in Callers :
    frames[t].pc = "walk" =>
      \E steps \in {reversed_enumerate(frames[t].sid_sequence)} :
        \A n \in 1..Len(steps) :
          LET aimed == frames[t].images[steps[n][1]]
              following == IF n = Len(steps) THEN frames[t].end
                           ELSE frames[t].images[steps[n + 1][1]]
          IN  aimed = reflect(shape_of(scene, steps[n][2]), following)

\* C26 witness: the walk of a candidate of two different planes is heading
\* for its first reflector.
C26_Witness ==
  /\ frames[1].pc = "walk"
  /\ Len(frames[1].sid_sequence) = 2
  /\ frames[1].i = 2
  /\ frames[1].sid_sequence[1] # frames[1].sid_sequence[2]
  /\ frames[1].images[1] # frames[1].end
  /\ frames[1].images[2] # frames[1].images[1]

\* The place of an id among the keys of the scene, in insertion order.
Pos(sid) == CHOOSE j \in 1..Len(scene) : scene[j].id = sid

\* The candidate a is enumerated before the candidate b: it is shorter, or
\* as long and before b in the order of the Cartesian product, the last
\* position running fastest.
EnumeratedBefore(a, b) ==
  \/ Len(a) < Len(b)
  \/ /\ Len(a) = Len(b)
     /\ \E n \in 1..Len(a) :
          /\ Pos(a[n]) < Pos(b[n])
          /\ \A m \in 1..(n - 1) : a[m] = b[m]

\* C27: the retained paths are in enumeration order: a path with fewer
\* reflections comes before one with more, and paths with the same number
\* of reflections follow the order in which the enumerator yields their
\* candidates.
C27_PathsInEnumerationOrder ==
  \A j, i \in 1..Len(result.trace) :
    j < i => /\ Len(SidsOf(j)) <= Len(SidsOf(i))
             /\ Len(origins[j].cand) = Len(SidsOf(j))
             /\ EnumeratedBefore(origins[j].cand, origins[i].cand)

\* C27 witness: a returned result holds two paths of two reflections each,
\* from two different candidates.
C27_Witness ==
  /\ Done(1)
  /\ \E j, i \in 1..Len(result.trace) :
       /\ j < i
       /\ Len(SidsOf(j)) = 2
       /\ Len(SidsOf(i)) = 2
       /\ origins[j].cand # origins[i].cand

\* C28: in every retained path the directions and the lengths are as many,
\* n >= 1, and the reflector ids and the incidence cosines are n - 1 each:
\* the terminal segment has a direction and a length but no reflector id
\* and no cosine, and no path without a segment is retained.
C28_ListLengths ==
  \A j \in 1..Len(result.trace) :
    \E buf \in {result.heap[result.trace[j]]} :
      /\ Len(buf[DIR_CODE]) >= 1
      /\ Len(buf[LEN_CODE]) = Len(buf[DIR_CODE])
      /\ Len(buf[SID_CODE]) = Len(buf[DIR_CODE]) - 1
      /\ Len(buf[AOA_CODE]) = Len(buf[DIR_CODE]) - 1

\* C28 witness: a retained path of three segments has two reflector ids and
\* two cosines.
C28_Witness ==
  \E j \in 1..Len(result.trace) :
    /\ Len(result.heap[result.trace[j]][DIR_CODE]) = 3
    /\ Len(result.heap[result.trace[j]][LEN_CODE]) = 3
    /\ Len(result.heap[result.trace[j]][SID_CODE]) = 2
    /\ Len(result.heap[result.trace[j]][AOA_CODE]) = 2

\* C29: a saved path is never changed by the later append, clear and save
\* operations of the same query: the buffer being built is never one of the
\* retained buffers, it is empty after every save and every discard, and each
\* step of a query in progress leaves every retained path as it was, in its
\* place.
C29_SavedPathsFrozen ==
  /\ [](/\ \A j \in 1..Len(result.trace) : result.trace[j] # result.temp
        /\ (\A t \in Callers : frames[t].pc # "walk")
             => result.heap[result.temp] = EmptyBuf)
  /\ [][\A t \in Callers :
          InProgress(t) =>
            /\ Len(result'.trace) >= Len(result.trace)
            /\ \A j \in 1..Len(result.trace) :
                 result'.heap[result'.trace[j]] = result.heap[result.trace[j]]
       ]_vars

\* C29 witness: with a path saved and a candidate discarded since, the next
\* candidate's reflections are being appended to the buffer being built.
C29_Witness ==
  /\ frames[1].pc = "walk"
  /\ Len(result.trace) >= 1
  /\ frames[1].ncand > Len(result.trace) + 1
  /\ result.heap[result.temp][DIR_CODE] # <<>>

\* C30: the Empty shape has fixed results for every input: is_shadowed is
\* False for every segment, intersect returns the target point it is given,
\* and mirroring a point through it returns the point unchanged.
C30_EmptyFixedResults ==
  probe.op = "empty"
    => /\ probe.is_shadowed = FALSE
       /\ probe.intersect = probe.end
       /\ probe.reflect # AttributeError
       /\ probe.reflect = probe.end

====
